---- MODULE Spec2Model ----
(***************************************************************************)
(* A model of pycuber: the random-state scrambler (scrambler.py) and the   *)
(* timer application's key handling (app.py).                              *)
(*                                                                         *)
(* Python lists are functions over 0..n-1, as the code indexes them.       *)
(* Strings are sequences of one-character strings; a literal fragment of   *)
(* an f-string is kept as one element.                                     *)
(***************************************************************************)
EXTENDS Integers, Sequences, FiniteSets

VARIABLES
    \* get_permutation_parity, statement by statement
    perm, visited, cycles, i, j, ppc, parity_result, prev_result,
    \* generate_random_state_string
    tables, rnd, gen_pc, cp, ep, co, eo, cells, writes, gen_out,
    \* get_scramble
    oracle, oracle_arg, scr_pc, scr_out,
    \* invert_solution
    moves, inv_in, inv_out, inv_back, inv_pc,
    \* PyCuberApp
    app_pc, timer_state, time_elapsed, current_scramble, scramble_widget,
    history, solve_count, start_scramble, running_for

parityVars == <<perm, visited, cycles, i, j, ppc, parity_result, prev_result>>
genVars == <<tables, rnd, gen_pc, cp, ep, co, eo, cells, writes, gen_out>>
scrVars == <<oracle, oracle_arg, scr_pc, scr_out>>
invVars == <<moves, inv_in, inv_out, inv_back, inv_pc>>
appVars == <<app_pc, timer_state, time_elapsed, current_scramble,
             scramble_widget, history, solve_count, start_scramble, running_for>>
vars == <<parityVars, genVars, scrVars, invVars, appVars>>

----------------------------------------------------------------------------
(* Bounds of the model *)

\* get_permutation_parity is run on every permutation of 0..n-1, n <= MaxN
MaxN == 4
\* how far the random draws of one generate_random_state_string call lie
\* from list(range(n)) and from all-zero orientations: transpositions of the
\* two shuffles plus nonzero orientation draws
MaxDeviation == 2
\* the same for the draws of a get_scramble call
MaxScrambleDeviation == 1
\* how far the permutations and orientations handed to the encoder alone lie
\* from the identity and from all-zero
MaxEncoderDeviation == 1
\* length of the move sequences given to invert_solution
MaxMoves == 3
\* solves logged in one session of the app, and timer ticks of one solve
MaxSolves == 2
MaxTicks == 1

----------------------------------------------------------------------------
(* Python lists *)

List(seq) == [x \in 0..(Len(seq) - 1) |-> seq[x + 1]]
Size(list) == Cardinality(DOMAIN list)
Range(n) == [x \in 0..(n - 1) |-> x]
Swapped(list, a, b) == [list EXCEPT ![a] = list[b], ![b] = list[a]]
IsPermutation(list, n) ==
    /\ DOMAIN list = 0..(n - 1)
    /\ \A x \in 0..(n - 1) : \E y \in 0..(n - 1) : list[y] = x

RECURSIVE Sum(_, _)
Sum(list, n) == IF n = 0 THEN 0 ELSE list[n - 1] + Sum(list, n - 1)

----------------------------------------------------------------------------
(* get_permutation_parity *)

ParityResultCyclesOnly(n, c) == c % 2

\* return (n - cycles) % 2
ParityResult(n, c) == (n - c) % 2

\* while not visited[j]: visited[j] = True; j = perm[j]
RECURSIVE WhileLoop(_, _, _)
WhileLoop(p, vis, jj) ==
    IF vis[jj] THEN vis
    ELSE WhileLoop(p, [vis EXCEPT ![jj] = TRUE], p[jj])

\* for i in range(n): if not visited[i]: cycles += 1; ...
\* (vis0 is evaluated once and named vis)
RECURSIVE ForLoop(_, _, _, _)
ForLoop(p, vis0, c, ii) ==
    IF ii = Size(p) THEN c
    ELSE CHOOSE r \in
           { IF ~vis[ii] THEN ForLoop(p, WhileLoop(p, vis, ii), c + 1, ii + 1)
             ELSE ForLoop(p, vis, c, ii + 1) : vis \in {vis0} } : TRUE

get_permutation_parity(p) ==
    ParityResult(Size(p), ForLoop(p, [x \in DOMAIN p |-> FALSE], 0, 0))

\* The same function one statement at a time.
ParityCall(p) ==
    /\ perm' = p
    /\ visited' = [x \in DOMAIN p |-> FALSE]
    /\ cycles' = 0
    /\ i' = 0
    /\ j' = 0
    /\ ppc' = "for"
    /\ parity_result' = -1

\* line 14-17: the for loop's head and the start of a cycle
ParityFor ==
    /\ ppc = "for"
    /\ i < Size(perm)
    /\ IF ~visited[i]
       THEN /\ cycles' = cycles + 1
            /\ j' = i
            /\ ppc' = "while"
            /\ i' = i
       ELSE /\ i' = i + 1
            /\ UNCHANGED <<cycles, j, ppc>>
    /\ UNCHANGED <<perm, visited, parity_result, prev_result>>
    /\ UNCHANGED <<genVars, scrVars, invVars, appVars>>

\* line 18-20: one test of the while loop and, when it holds, one pass
ParityWhile ==
    /\ ppc = "while"
    /\ IF ~visited[j]
       THEN /\ visited' = [visited EXCEPT ![j] = TRUE]
            /\ j' = perm[j]
            /\ UNCHANGED <<i, ppc>>
       ELSE /\ i' = i + 1
            /\ ppc' = "for"
            /\ UNCHANGED <<visited, j>>
    /\ UNCHANGED <<perm, cycles, parity_result, prev_result>>
    /\ UNCHANGED <<genVars, scrVars, invVars, appVars>>

\* line 21
ParityReturn ==
    /\ ppc = "for"
    /\ i = Size(perm)
    /\ parity_result' = ParityResult(Size(perm), cycles)
    /\ ppc' = "done"
    /\ UNCHANGED <<perm, visited, cycles, i, j, prev_result>>
    /\ UNCHANGED <<genVars, scrVars, invVars, appVars>>

\* two entries of the list are exchanged (as line 75 does with ep[0], ep[1])
\* and the parity is taken again
SwapEntries ==
    /\ ppc = "done"
    /\ \E a \in DOMAIN perm : \E b \in DOMAIN perm :
          /\ a < b
          /\ ParityCall(Swapped(perm, a, b))
    /\ prev_result' = parity_result
    /\ UNCHANGED <<genVars, scrVars, invVars, appVars>>

Permutations(n) == {p \in [0..(n - 1) -> 0..(n - 1)] : IsPermutation(p, n)}

----------------------------------------------------------------------------
(* generate_random_state_string: the tables *)

Faces == <<"U", "R", "F", "D", "L", "B">>
NFacelets == 54
NCorners == 8
NEdges == 12
Positions == 0..(NFacelets - 1)

\* "UUUUUUUUURRRRRRRRRFFFFFFFFFDDDDDDDDDLLLLLLLLLBBBBBBBBB"
solved_chars == [p \in Positions |-> Faces[(p \div 9) + 1]]

corner_stickers == List(<<
    List(<<8, 9, 20>>),
    List(<<6, 18, 38>>),
    List(<<0, 36, 47>>),
    List(<<2, 45, 11>>),
    List(<<29, 26, 15>>),
    List(<<27, 44, 24>>),
    List(<<33, 53, 42>>),
    List(<<35, 17, 51>>) >>)

edge_stickers == List(<<
    List(<<7, 19>>),
    List(<<5, 10>>),
    List(<<1, 46>>),
    List(<<3, 37>>),
    List(<<23, 12>>),
    List(<<21, 41>>),
    List(<<48, 14>>),
    List(<<50, 39>>),
    List(<<28, 25>>),
    List(<<32, 16>>),
    List(<<34, 52>>),
    List(<<30, 43>>) >>)

center_indices == List(<<4, 13, 22, 31, 40, 49>>)

ShippedTables == [corners |-> corner_stickers, edges |-> edge_stickers]

----------------------------------------------------------------------------
(* generate_random_state_string: the orientations and the parity fix *)

LastCornerOrientationPlain(drawn) == Sum(drawn, NCorners - 1) % 3

\* co.append((3 - (sum(co) % 3)) % 3)
LastCornerOrientation(drawn) == (3 - (Sum(drawn, NCorners - 1) % 3)) % 3

\* eo.append((2 - (sum(eo) % 2)) % 2)
LastEdgeOrientation(drawn) == (2 - (Sum(drawn, NEdges - 1) % 2)) % 2

Appended(drawn, n, last) == [x \in 0..(n - 1) |-> IF x < n - 1 THEN drawn[x] ELSE last]

FixParityNever(c, e) == e

\* if get_permutation_parity(cp) != get_permutation_parity(ep): swap ep[0], ep[1]
FixParity(c, e) ==
    IF get_permutation_parity(c) # get_permutation_parity(e)
    THEN Swapped(e, 0, 1)
    ELSE e

----------------------------------------------------------------------------
(* generate_random_state_string: the encoder.  A facelet list in the making *)
(* is its cells and, for each position, how many times it was assigned.     *)

Blank == [cells |-> [p \in Positions |-> ""], writes |-> [p \in Positions |-> 0]]

CornerTargetMod2(target_facelet_positions, k, orientation) ==
    target_facelet_positions[(k + orientation) % 2]

\* target_facelet_positions[(k + orientation) % 3]
CornerTarget(target_facelet_positions, k, orientation) ==
    target_facelet_positions[(k + orientation) % 3]

\* target_facelet_positions[(k + orientation) % 2]
EdgeTarget(target_facelet_positions, k, orientation) ==
    target_facelet_positions[(k + orientation) % 2]

\* lines 81-93: the assignments facelets[idx] = ch of the corner loops, in
\* the order they run; pass w of the inner loop is piece w \div 3, sticker w % 3
CornerWrites(tb, c, o) ==
    [w \in 0..(3 * NCorners - 1) |->
        LET piece == w \div 3
            k == w % 3
        IN [idx |-> CornerTarget(tb.corners[c[piece]], k, o[piece]),
            ch |-> solved_chars[tb.corners[piece][k]]]]

\* lines 96-106
EdgeWrites(tb, e, o) ==
    [w \in 0..(2 * NEdges - 1) |->
        LET piece == w \div 2
            k == w % 2
        IN [idx |-> EdgeTarget(tb.edges[e[piece]], k, o[piece]),
            ch |-> solved_chars[tb.edges[piece][k]]]]

CenterWritesByLoopIndex ==
    [w \in DOMAIN center_indices |->
        [idx |-> center_indices[w], ch |-> solved_chars[w]]]

\* lines 110-112
CenterWrites ==
    [w \in DOMAIN center_indices |->
        [idx |-> center_indices[w], ch |-> solved_chars[center_indices[w]]]]

\* facelets[idx] = ch, and the count of assignments to idx
Write(st, a) ==
    [cells |-> [st.cells EXCEPT ![a.idx] = a.ch],
     writes |-> [st.writes EXCEPT ![a.idx] = @ + 1]]

\* The assignments ws[w], ..., ws[n - 1] done in order on the facelets st0.
\* (st0 is evaluated once and named st)
RECURSIVE Assign(_, _, _, _)
Assign(st0, ws, w, n) ==
    IF w = n THEN st0
    ELSE CHOOSE r \in {Assign(Write(st, ws[w]), ws, w + 1, n) : st \in {st0}} : TRUE

\* all assignments of ws0 done in order on the facelets st0
ApplyWrites(st0, ws0) ==
    CHOOSE r \in {Assign(st, ws, 0, Size(ws)) : st \in {st0}, ws \in {ws0}} : TRUE

\* str(n) for n >= 0
DigitChars == <<"0", "1", "2", "3", "4", "5", "6", "7", "8", "9">>
RECURSIVE Str(_)
Str(n) == IF n < 10 THEN <<DigitChars[n + 1]>>
          ELSE Str(n \div 10) \o <<DigitChars[(n % 10) + 1]>>

\* str of a list of ints, in increasing order: "[a, b, c]"
RECURSIVE StrItems(_)
StrItems(S) ==
    IF S = {} THEN <<>>
    ELSE LET m == CHOOSE x \in S : \A y \in S : x <= y
         IN Str(m) \o (IF S = {m} THEN <<>> ELSE <<",", " ">> \o StrItems(S \ {m}))
StrList(S) == <<"[">> \o StrItems(S) \o <<"]">>

\* "".join(facelets)
JoinCells(c) == [x \in 1..NFacelets |-> c[x - 1]]

MissingMessage == "Generated facelet string has missing values at indices: "

\* lines 115-121: the check for empty slots and the return
CheckAndReturn(st) ==
    LET missing_indices == {p \in Positions : st.cells[p] = ""}
    IN IF \E p \in Positions : st.cells[p] = ""
       THEN [raised |-> TRUE, value |-> <<>>,
             msg |-> <<MissingMessage>> \o StrList(missing_indices)]
       ELSE [raised |-> FALSE, value |-> JoinCells(st.cells), msg |-> <<>>]

\* lines 77-112
Encode(tb, c, o, e, f) ==
    ApplyWrites(ApplyWrites(ApplyWrites(Blank, CornerWrites(tb, c, o)),
                            EdgeWrites(tb, e, f)),
                CenterWrites)

\* The whole function, given what random.shuffle and random.randint yield:
\* r.cp and r.ep the shuffled lists, r.co the 7 and r.eo the 11 drawn values.
generate_random_state_string(tb, r) ==
    LET c == r.cp
        o == Appended(r.co, NCorners, LastCornerOrientation(r.co))
        f == Appended(r.eo, NEdges, LastEdgeOrientation(r.eo))
    IN CHOOSE g \in
         { [cp |-> c, ep |-> e, co |-> o, eo |-> f, st |-> st,
            out |-> CheckAndReturn(st)]
           : <<e, st>> \in { <<e1, Encode(tb, c, o, e1, f)>> : e1 \in {FixParity(c, r.ep)} } }
         : TRUE

----------------------------------------------------------------------------
(* The values random.shuffle and random.randint can yield, up to a bound *)

\* lists that random.shuffle(list(range(n))) yields with at most k exchanges
\* of two different entries
RECURSIVE ShufflesWithin(_, _)
ShufflesWithin(n, k) ==
    IF k = 0 THEN {Range(n)}
    ELSE LET S == ShufflesWithin(n, k - 1)
         IN S \cup {Swapped(p, a, b) : p \in S, a \in 0..(n - 1), b \in 0..(n - 1)}

\* n draws of random.randint(0, top) of which at most k are not 0
RECURSIVE RandintsWithin(_, _, _)
RandintsWithin(n, top, k) ==
    IF k = 0 THEN {[x \in 0..(n - 1) |-> 0]}
    ELSE LET S == RandintsWithin(n, top, k - 1)
         IN S \cup {[d EXCEPT ![x] = v] : d \in S, x \in 0..(n - 1), v \in 1..top}

\* how a budget of b splits over the four draws
Splits(b) ==
    {s \in [1..4 -> 0..b] : s[1] + s[2] + s[3] + s[4] = b}

\* the draws of one call, the budget split as s
Draws(s) ==
    [cp : ShufflesWithin(NCorners, s[1]),
     ep : ShufflesWithin(NEdges, s[2]),
     co : RandintsWithin(NCorners - 1, 2, s[3]),
     eo : RandintsWithin(NEdges - 1, 1, s[4])]

\* any permutations and orientations handed to the encoder, the last
\* orientations free as well
EncoderInputs(s) ==
    [cp : ShufflesWithin(NCorners, s[1]),
     ep : ShufflesWithin(NEdges, s[2]),
     co : RandintsWithin(NCorners, 2, s[3]),
     eo : RandintsWithin(NEdges, 1, s[4])]

NoDraws == [cp |-> Range(NCorners), ep |-> Range(NEdges),
            co |-> [x \in 0..(NCorners - 2) |-> 0], eo |-> [x \in 0..(NEdges - 2) |-> 0]]
NoOut == [raised |-> FALSE, value |-> <<>>, msg |-> <<>>]

----------------------------------------------------------------------------
(* invert_move, invert_solution *)

Last(s) == s[Len(s)]

InvertMoveKeepPrime(move) ==
    IF Len(move) > 0 /\ Last(move) = "'" THEN move
    ELSE IF Len(move) > 0 /\ Last(move) = "2" THEN move
    ELSE move \o <<"'">>

\* lines 124-131
invert_move(move) ==
    IF Len(move) > 0 /\ Last(move) = "'" THEN SubSeq(move, 1, Len(move) - 1)
    ELSE IF Len(move) > 0 /\ Last(move) = "2" THEN move
    ELSE move \o <<"'">>

\* str.split(): the maximal runs of characters that are not whitespace
RECURSIVE SplitFrom(_, _, _, _)
SplitFrom(s, pos, word, acc) ==
    IF pos > Len(s)
    THEN IF word = <<>> THEN acc ELSE Append(acc, word)
    ELSE IF s[pos] = " "
         THEN SplitFrom(s, pos + 1, <<>>, IF word = <<>> THEN acc ELSE Append(acc, word))
         ELSE SplitFrom(s, pos + 1, Append(word, s[pos]), acc)
Split(s) == SplitFrom(s, 1, <<>>, <<>>)

\* " ".join(words)
RECURSIVE JoinSpace(_)
JoinSpace(words) ==
    IF words = <<>> THEN <<>>
    ELSE IF Len(words) = 1 THEN words[1]
    ELSE words[1] \o <<" ">> \o JoinSpace(Tail(words))

Reversed(s) == [x \in 1..Len(s) |-> s[Len(s) + 1 - x]]

InvertSolutionInOrder(solution) ==
    IF solution = <<>> THEN <<>>
    ELSE LET ms == Split(solution)
         IN JoinSpace([x \in 1..Len(ms) |-> invert_move(ms[x])])

\* lines 134-140
invert_solution(solution) ==
    IF solution = <<>> THEN <<>>
    ELSE LET ms == Reversed(Split(solution))
         IN JoinSpace([x \in 1..Len(ms) |-> invert_move(ms[x])])

\* What kociemba.solve returns: moves <FACE>[<MODIFIER>] joined by single spaces.
Modifiers == {"", "'", "2"}
Moves == [face : {Faces[x] : x \in 1..Len(Faces)}, modifier : Modifiers]
Token(m) == IF m.modifier = "" THEN <<m.face>> ELSE <<m.face, m.modifier>>
Serialize(ms) == JoinSpace([x \in 1..Len(ms) |-> Token(ms[x])])
MoveSequences(n) == UNION {[1..k -> Moves] : k \in 0..n}
Mv(f, m) == [face |-> f, modifier |-> m]

----------------------------------------------------------------------------
(* get_scramble *)

Uncaught(e, state) == [raised |-> TRUE, value |-> <<>>]

\* lines 156-159: except Exception as e: return f"Error generating scramble: {e} | State: {state}"
Caught(e, state) ==
    [raised |-> FALSE,
     value |-> <<"Error generating scramble: ">> \o e \o <<" | State: ">> \o state]

\* lines 143-159.  orc is what kociemba.solve does when it is called:
\* orc.ok and the solution orc.text, or an exception with message orc.text.
\* arg is the string handed to kociemba.solve, <<"not called">> when it is not.
get_scramble(tb, r, orc) ==
    CHOOSE s \in
      { IF g.raised
        THEN [gen |-> g, arg |-> <<"not called">>, out |-> Caught(g.msg, <<>>)]
        ELSE IF ~orc.ok
        THEN [gen |-> g, arg |-> g.value, out |-> Caught(orc.text, g.value)]
        ELSE [gen |-> g, arg |-> g.value,
              out |-> [raised |-> FALSE, value |-> invert_solution(orc.text)]]
        : g \in {generate_random_state_string(tb, r).out} } : TRUE

\* behaviours of kociemba.solve
SampleSolutions ==
    { <<>>,
      <<Mv("F", "2")>>,
      <<Mv("R", ""), Mv("U", ""), Mv("R", "'")>>,
      <<Mv("U", "'"), Mv("R", "2"), Mv("L", ""), Mv("D", "'"), Mv("B", "")>> }
OracleErrors == { <<>>, <<"Error. Probably cubestring is invalid">> }
OracleOutcomes ==
    {[ok |-> TRUE, text |-> Serialize(ms)] : ms \in SampleSolutions}
    \cup {[ok |-> FALSE, text |-> e] : e \in OracleErrors}

\* tables with one sticker index wrong: the defect the encoder's check is for
DefectiveTables ==
    { [ShippedTables EXCEPT !.corners[0][2] = 9],
      [ShippedTables EXCEPT !.edges[0][1] = 7] }

----------------------------------------------------------------------------
(* The parts a specification does not run stay as constructed. *)

IdleParity ==
    /\ perm = <<>> /\ visited = <<>> /\ cycles = 0 /\ i = 0 /\ j = 0
    /\ ppc = "idle" /\ parity_result = -1 /\ prev_result = -1
IdleGen ==
    /\ tables = ShippedTables /\ rnd = NoDraws /\ gen_pc = "idle"
    /\ cp = <<>> /\ ep = <<>> /\ co = <<>> /\ eo = <<>>
    /\ cells = Blank.cells /\ writes = Blank.writes /\ gen_out = NoOut
IdleScramble ==
    /\ oracle = [ok |-> TRUE, text |-> <<>>] /\ oracle_arg = <<"not called">>
    /\ scr_pc = "idle" /\ scr_out = [raised |-> FALSE, value |-> <<>>]
IdleInvert ==
    /\ moves = <<>> /\ inv_in = <<>> /\ inv_out = <<>> /\ inv_back = <<>>
    /\ inv_pc = "idle"
IdleApp ==
    /\ app_pc = "idle" /\ timer_state = "IDLE" /\ time_elapsed = 0
    /\ current_scramble = <<>> /\ scramble_widget = <<>> /\ history = <<>>
    /\ solve_count = 0 /\ start_scramble = <<>> /\ running_for = 0

----------------------------------------------------------------------------
(* SpecParity: get_permutation_parity on every permutation of 0..n-1 *)

InitParity ==
    /\ \E n \in 0..MaxN : perm \in Permutations(n)
    /\ visited = [x \in DOMAIN perm |-> FALSE]
    /\ cycles = 0 /\ i = 0 /\ j = 0 /\ ppc = "for"
    /\ parity_result = -1 /\ prev_result = -1
    /\ IdleGen /\ IdleScramble /\ IdleInvert /\ IdleApp

ParityStep == ParityFor \/ ParityWhile \/ ParityReturn

NextParity ==
    \/ ParityFor
    \/ ParityWhile
    \/ ParityReturn
    \/ SwapEntries

\* the function's statements run one after the other until it returns
SpecParity == InitParity /\ [][NextParity]_vars /\ WF_vars(ParityStep)

----------------------------------------------------------------------------
(* SpecGen: one call of generate_random_state_string *)

InitGen ==
    /\ tables = ShippedTables
    /\ \E s \in Splits(MaxDeviation) : rnd \in Draws(s)
    /\ gen_pc = "call"
    /\ cp = <<>> /\ ep = <<>> /\ co = <<>> /\ eo = <<>>
    /\ cells = Blank.cells /\ writes = Blank.writes /\ gen_out = NoOut
    /\ IdleParity /\ IdleScramble /\ IdleInvert /\ IdleApp

Generate ==
    /\ gen_pc = "call"
    /\ \E g \in {generate_random_state_string(tables, rnd)} :
          /\ cp' = g.cp /\ ep' = g.ep /\ co' = g.co /\ eo' = g.eo
          /\ cells' = g.st.cells /\ writes' = g.st.writes
          /\ gen_out' = g.out
          /\ gen_pc' = IF g.out.raised THEN "raised" ELSE "returned"
    /\ UNCHANGED <<tables, rnd>>
    /\ UNCHANGED <<parityVars, scrVars, invVars, appVars>>

NextGen == Generate

SpecGen == InitGen /\ [][NextGen]_vars

----------------------------------------------------------------------------
(* SpecEncoder: lines 77-121 on any permutations and orientations, one loop *)
(* at a time                                                                *)

InitEncoder ==
    /\ tables = ShippedTables
    /\ rnd = NoDraws
    /\ \E s \in Splits(MaxEncoderDeviation) : \E inp \in EncoderInputs(s) :
          cp = inp.cp /\ ep = inp.ep /\ co = inp.co /\ eo = inp.eo
    /\ gen_pc = "corners"
    /\ cells = Blank.cells /\ writes = Blank.writes /\ gen_out = NoOut
    /\ IdleParity /\ IdleScramble /\ IdleInvert /\ IdleApp

EncodeCorners ==
    /\ gen_pc = "corners"
    /\ LET st == ApplyWrites([cells |-> cells, writes |-> writes], CornerWrites(tables, cp, co))
       IN cells' = st.cells /\ writes' = st.writes
    /\ gen_pc' = "edges"
    /\ UNCHANGED <<tables, rnd, cp, ep, co, eo, gen_out>>
    /\ UNCHANGED <<parityVars, scrVars, invVars, appVars>>

EncodeEdges ==
    /\ gen_pc = "edges"
    /\ LET st == ApplyWrites([cells |-> cells, writes |-> writes], EdgeWrites(tables, ep, eo))
       IN cells' = st.cells /\ writes' = st.writes
    /\ gen_pc' = "centers"
    /\ UNCHANGED <<tables, rnd, cp, ep, co, eo, gen_out>>
    /\ UNCHANGED <<parityVars, scrVars, invVars, appVars>>

FillCenters ==
    /\ gen_pc = "centers"
    /\ LET st == ApplyWrites([cells |-> cells, writes |-> writes], CenterWrites)
       IN cells' = st.cells /\ writes' = st.writes
    /\ gen_pc' = "check"
    /\ UNCHANGED <<tables, rnd, cp, ep, co, eo, gen_out>>
    /\ UNCHANGED <<parityVars, scrVars, invVars, appVars>>

CheckFacelets ==
    /\ gen_pc = "check"
    /\ gen_out' = CheckAndReturn([cells |-> cells, writes |-> writes])
    /\ gen_pc' = IF gen_out'.raised THEN "raised" ELSE "returned"
    /\ UNCHANGED <<tables, rnd, cp, ep, co, eo, cells, writes>>
    /\ UNCHANGED <<parityVars, scrVars, invVars, appVars>>

NextEncoder ==
    \/ EncodeCorners
    \/ EncodeEdges
    \/ FillCenters
    \/ CheckFacelets

SpecEncoder == InitEncoder /\ [][NextEncoder]_vars

----------------------------------------------------------------------------
(* SpecInvert: invert_solution on a solution, and on its own result *)

InitInvert ==
    /\ moves \in MoveSequences(MaxMoves)
    /\ inv_in = Serialize(moves)
    /\ inv_out = <<>> /\ inv_back = <<>> /\ inv_pc = "call"
    /\ IdleParity /\ IdleGen /\ IdleScramble /\ IdleApp

Invert ==
    /\ inv_pc = "call"
    /\ inv_out' = invert_solution(inv_in)
    /\ inv_pc' = "once"
    /\ UNCHANGED <<moves, inv_in, inv_back>>
    /\ UNCHANGED <<parityVars, genVars, scrVars, appVars>>

InvertAgain ==
    /\ inv_pc = "once"
    /\ inv_back' = invert_solution(inv_out)
    /\ inv_pc' = "twice"
    /\ UNCHANGED <<moves, inv_in, inv_out>>
    /\ UNCHANGED <<parityVars, genVars, scrVars, appVars>>

NextInvert ==
    \/ Invert
    \/ InvertAgain

SpecInvert == InitInvert /\ [][NextInvert]_vars

----------------------------------------------------------------------------
(* SpecScramble: one call of get_scramble, kociemba.solve doing anything.   *)
(* SpecDefect: the same with the sticker tables possibly defective.         *)
(* The shipped tables never make the encoder's check raise; a defective    *)
(* table is the only way to the except clause with that error.             *)

InitScrambleWith(tbs) ==
    /\ tables \in tbs
    /\ \E s \in Splits(MaxScrambleDeviation) : rnd \in Draws(s)
    /\ oracle \in OracleOutcomes
    /\ oracle_arg = <<"not called">>
    /\ scr_pc = "call" /\ scr_out = [raised |-> FALSE, value |-> <<>>]
    /\ gen_pc = "idle"
    /\ cp = <<>> /\ ep = <<>> /\ co = <<>> /\ eo = <<>>
    /\ cells = Blank.cells /\ writes = Blank.writes /\ gen_out = NoOut
    /\ IdleParity /\ IdleInvert /\ IdleApp

GetScramble ==
    /\ scr_pc = "call"
    /\ \E s \in {get_scramble(tables, rnd, oracle)} :
          /\ gen_out' = s.gen
          /\ oracle_arg' = s.arg
          /\ scr_out' = s.out
          /\ scr_pc' = IF s.out.raised THEN "raised" ELSE "returned"
    /\ UNCHANGED <<tables, rnd, gen_pc, cp, ep, co, eo, cells, writes, oracle>>
    /\ UNCHANGED <<parityVars, invVars, appVars>>

NextScramble == GetScramble

InitScramble == InitScrambleWith({ShippedTables})
SpecScramble == InitScramble /\ [][NextScramble]_vars

InitDefect == InitScrambleWith({ShippedTables} \cup DefectiveTables)
SpecDefect == InitDefect /\ [][NextScramble]_vars

----------------------------------------------------------------------------
(* SpecApp: PyCuberApp under key presses and timer ticks.                   *)
(* A history row is what log_solve hands to add_row, and beside it the      *)
(* scramble that was on display when the solve's timer was started.         *)

\* what get_scramble returns to the app
AppScrambles ==
    {get_scramble(ShippedTables, NoDraws, o).out.value : o \in
        {[ok |-> TRUE, text |-> Serialize(<<Mv("F", "2")>>)],
         [ok |-> TRUE, text |-> Serialize(<<Mv("R", ""), Mv("U", ""), Mv("R", "'")>>)],
         [ok |-> FALSE, text |-> <<"Error. Probably cubestring is invalid">>]}}

\* lines 119-125: __init__
InitApp ==
    /\ app_pc = "constructed"
    /\ timer_state = "IDLE"
    /\ time_elapsed = 0
    /\ running_for = 0
    /\ solve_count = 0
    /\ current_scramble = <<>>
    /\ scramble_widget = <<>>
    /\ history = <<>>
    /\ start_scramble = <<>>
    /\ IdleParity /\ IdleGen /\ IdleScramble /\ IdleInvert

\* lines 127-143: compose
Compose ==
    /\ app_pc = "constructed"
    /\ \E initial_scramble \in AppScrambles :
          /\ current_scramble' = initial_scramble
          /\ scramble_widget' = initial_scramble
    /\ app_pc' = "running"
    /\ UNCHANGED <<timer_state, time_elapsed, running_for, solve_count, history,
                   start_scramble>>
    /\ UNCHANGED <<parityVars, genVars, scrVars, invVars>>

\* lines 151-154: update_timer, called by the interval while the timer runs;
\* running_for is time.monotonic() - self.start_time
Tick ==
    /\ app_pc = "running"
    /\ timer_state = "RUNNING"
    /\ running_for < MaxTicks
    /\ running_for' = running_for + 1
    /\ time_elapsed' = running_for + 1
    /\ UNCHANGED <<app_pc, timer_state, solve_count, current_scramble,
                   scramble_widget, history, start_scramble>>
    /\ UNCHANGED <<parityVars, genVars, scrVars, invVars>>

\* lines 156-167
start_timer ==
    /\ timer_state' = "RUNNING"
    /\ running_for' = 0
    /\ start_scramble' = scramble_widget
    /\ UNCHANGED <<time_elapsed, solve_count, current_scramble, scramble_widget,
                   history>>

\* lines 217-232: the row added to the table
log_solve(solve_time) ==
    [no |-> solve_count + 1, time |-> solve_time, scramble |-> current_scramble,
     shown_at_start |-> start_scramble]

\* lines 169-189: stop_timer, with log_solve and then action_new_scramble
stop_timer ==
    /\ timer_state' = "IDLE"
    /\ time_elapsed' = running_for
    /\ solve_count' = solve_count + 1
    /\ history' = Append(history, log_solve(running_for))
    /\ \E new_scramble \in AppScrambles :
          /\ current_scramble' = new_scramble
          /\ scramble_widget' = new_scramble
    /\ UNCHANGED <<running_for, start_scramble>>

\* lines 234-240: on_key, the space key
KeySpace ==
    /\ app_pc = "running"
    /\ IF timer_state = "RUNNING"
       THEN stop_timer
       ELSE /\ timer_state = "IDLE"
            /\ Len(history) < MaxSolves
            /\ start_timer
    /\ UNCHANGED app_pc
    /\ UNCHANGED <<parityVars, genVars, scrVars, invVars>>

\* line 111 and lines 245-251: the binding of "s", action_new_scramble
KeyS ==
    /\ app_pc = "running"
    /\ \E new_scramble \in AppScrambles :
          /\ current_scramble' = new_scramble
          /\ scramble_widget' = new_scramble
    /\ UNCHANGED <<app_pc, timer_state, time_elapsed, running_for, solve_count,
                   history, start_scramble>>
    /\ UNCHANGED <<parityVars, genVars, scrVars, invVars>>

\* line 112 and lines 253-259: the binding of "x", action_clear_history
KeyX ==
    /\ app_pc = "running"
    /\ history' = <<>>
    /\ solve_count' = 0
    /\ UNCHANGED <<app_pc, timer_state, time_elapsed, running_for,
                   current_scramble, scramble_widget, start_scramble>>
    /\ UNCHANGED <<parityVars, genVars, scrVars, invVars>>

\* line 110 and lines 242-243: "q" ends the app
KeyQ ==
    /\ app_pc = "running"
    /\ app_pc' = "exited"
    /\ UNCHANGED <<timer_state, time_elapsed, running_for, solve_count,
                   current_scramble, scramble_widget, history, start_scramble>>
    /\ UNCHANGED <<parityVars, genVars, scrVars, invVars>>

NextApp ==
    \/ Compose
    \/ Tick
    \/ KeySpace
    \/ KeyS
    \/ KeyX
    \/ KeyQ

SpecApp == InitApp /\ [][NextApp]_vars

----------------------------------------------------------------------------
(* What the claims are stated with *)

\* parity of the number of inversions of a list
InversionParity(list) ==
    Cardinality({pr \in (DOMAIN list) \X (DOMAIN list) :
                    pr[1] < pr[2] /\ list[pr[1]] > list[pr[2]]}) % 2

\* the disjoint cycles of a permutation, fixed points included
RECURSIVE Iterate(_, _, _)
Iterate(p, k, x) == IF k = 0 THEN x ELSE p[Iterate(p, k - 1, x)]
Orbit(p, x) == {Iterate(p, k, x) : k \in 0..Size(p)}
CycleCount(p) == Cardinality({Orbit(p, x) : x \in DOMAIN p})

\* t is a run of consecutive elements of s
Embeds(s, t) ==
    \E k \in 0..(Len(s) - Len(t)) : SubSeq(s, k + 1, k + Len(t)) = t

\* the contract of the move inverter, on moves rather than on text
InvertedMove(m) ==
    [face |-> m.face,
     modifier |-> IF m.modifier = "" THEN "'" ELSE IF m.modifier = "'" THEN "" ELSE "2"]
invert_sequence(ms) == [x \in 1..Len(ms) |-> InvertedMove(ms[Len(ms) + 1 - x])]

GenDone == gen_pc \in {"returned", "raised"}

\* C1: in every state generate_random_state_string builds, the corner and
\* the edge permutation have the same parity (after the conditional exchange
\* of ep[0] and ep[1]), and both are still permutations of 0..7 and 0..11.
C1_SameParity ==
    GenDone =>
        /\ InversionParity(cp) = InversionParity(ep)
        /\ IsPermutation(cp, NCorners)
        /\ IsPermutation(ep, NEdges)
        /\ cp = rnd.cp

\* C1's case: the shuffles differed in parity and the edges were exchanged
C1_Witness ==
    /\ gen_pc = "returned"
    /\ InversionParity(rnd.cp) # InversionParity(rnd.ep)
    /\ ep = Swapped(rnd.ep, 0, 1)
    /\ ep # rnd.ep

\* C2: whatever the 7 corner and 11 edge orientations drawn, the 8 corner
\* orientations sum to 0 mod 3 and the 12 edge orientations to 0 mod 2, the
\* computed last ones lying in {0,1,2} and {0,1}.
C2_OrientationSums ==
    GenDone =>
        /\ DOMAIN co = 0..(NCorners - 1)
        /\ DOMAIN eo = 0..(NEdges - 1)
        /\ \A x \in 0..(NCorners - 2) : co[x] = rnd.co[x]
        /\ \A x \in 0..(NEdges - 2) : eo[x] = rnd.eo[x]
        /\ co[NCorners - 1] \in 0..2
        /\ eo[NEdges - 1] \in 0..1
        /\ Sum(co, NCorners) % 3 = 0
        /\ Sum(eo, NEdges) % 2 = 0

\* C2's case: both computed orientations had to compensate the drawn ones
C2_Witness ==
    /\ gen_pc = "returned"
    /\ co[NCorners - 1] # 0
    /\ eo[NEdges - 1] = 1

\* C3: every facelet string returned has length 54, no empty position, each
\* of the six symbols 9 times, and the six centre cells as in the solved string.
C3_FaceletString ==
    gen_pc = "returned" =>
        /\ ~gen_out.raised
        /\ Len(gen_out.value) = NFacelets
        /\ \A x \in 1..NFacelets : gen_out.value[x] # ""
        /\ \A f \in 1..Len(Faces) :
              Cardinality({x \in 1..NFacelets : gen_out.value[x] = Faces[f]}) = 9
        /\ \A w \in DOMAIN center_indices :
              gen_out.value[center_indices[w] + 1] = solved_chars[center_indices[w]]

\* C3's case: a string returned for a state that is not the solved one
C3_Witness ==
    /\ gen_pc = "returned"
    /\ cp # Range(NCorners)
    /\ co[0] # 0
    /\ gen_out.value # JoinCells(solved_chars)

\* C8: for any permutations and any orientations, also ones that break the
\* sum and parity invariants, no position is assigned twice at any point of
\* the encoder, all 54 are assigned once the centres are filled, and the
\* check for missing values does not raise.
C8_WrittenExactlyOnce ==
    /\ \A p \in Positions : writes[p] <= 1
    /\ gen_pc \in {"check", "returned", "raised"} => \A p \in Positions : writes[p] = 1
    /\ gen_pc = "edges" =>
          Cardinality({p \in Positions : writes[p] = 1}) = 3 * NCorners
    /\ gen_pc = "centers" =>
          Cardinality({p \in Positions : writes[p] = 1}) = 3 * NCorners + 2 * NEdges
    /\ gen_pc # "raised"

\* C8's case: the encoder ran to its end on corner orientations whose sum
\* is not 0 mod 3
C8_Witness ==
    /\ gen_pc = "returned"
    /\ Sum(co, NCorners) % 3 # 0
    /\ \A p \in Positions : writes[p] = 1

\* C8's case again: edge orientations whose sum is not 0 mod 2
C8_WitnessEdges ==
    /\ gen_pc = "returned"
    /\ Sum(eo, NEdges) % 2 # 0

\* C8's case again: permutations of different parity
C8_WitnessParity ==
    /\ gen_pc = "returned"
    /\ InversionParity(cp) # InversionParity(ep)

\* C9: on every permutation of 0..n-1 (n = 0 included) get_permutation_parity
\* returns, and what it returns is (n - number of disjoint cycles) mod 2,
\* which is the parity of the number of inversions; after two entries are
\* exchanged it returns the other value.
C9_Parity ==
    /\ [](ppc = "done" =>
            /\ parity_result = (Size(perm) - CycleCount(perm)) % 2
            /\ parity_result = InversionParity(perm)
            /\ parity_result = get_permutation_parity(perm)
            /\ (prev_result # -1 => parity_result # prev_result))
    /\ [](ppc \in {"for", "while"} => <>(ppc = "done"))

\* C9's case: an odd permutation of the largest size, reached by an exchange
C9_Witness ==
    /\ ppc = "done"
    /\ Size(perm) = MaxN
    /\ prev_result = 0
    /\ parity_result = 1
    /\ CycleCount(perm) < MaxN - 1

\* C9's case again: the empty list
C9_WitnessEmpty ==
    /\ ppc = "done"
    /\ Size(perm) = 0
    /\ parity_result = 0

\* C5: for every sequence of moves, invert_solution returns the moves in
\* reverse order, each inverted, joined by single spaces; "R U R'" gives
\* "R U' R'" and the empty sequence gives the empty string.
C5_InvertSolution ==
    inv_pc \in {"once", "twice"} =>
        /\ inv_out = Serialize(invert_sequence(moves))
        /\ (moves = <<Mv("R", ""), Mv("U", ""), Mv("R", "'")>> =>
               /\ inv_in = <<"R", " ", "U", " ", "R", "'">>
               /\ inv_out = <<"R", " ", "U", "'", " ", "R", "'">>)
        /\ (moves = <<>> => inv_out = <<>>)

\* C5's case: "R U R'" inverted
C5_Witness ==
    /\ inv_pc = "once"
    /\ inv_in = <<"R", " ", "U", " ", "R", "'">>
    /\ inv_out = <<"R", " ", "U", "'", " ", "R", "'">>

\* C6: inverting the inverse of a move sequence gives the sequence back.
C6_Involution ==
    inv_pc = "twice" => inv_back = inv_in

\* C6's case: a sequence with a quarter turn, a prime and a double turn,
\* which its inverse differs from
C6_Witness ==
    /\ inv_pc = "twice"
    /\ Len(moves) = 3
    /\ {moves[x].modifier : x \in 1..3} = Modifiers
    /\ inv_out # inv_in
    /\ inv_back = inv_in

\* C4: get_scramble never raises; when kociemba.solve fails it returns a
\* non-empty string that holds the failure's message and the facelet string
\* that was handed to kociemba.solve.
C4_NeverRaises ==
    /\ scr_pc # "raised"
    /\ ~scr_out.raised
    /\ (scr_pc = "returned" /\ ~oracle.ok) =>
          /\ oracle_arg = gen_out.value
          /\ Len(oracle_arg) = NFacelets
          /\ Len(scr_out.value) > 0
          /\ Embeds(scr_out.value, oracle.text)
          /\ Embeds(scr_out.value, oracle_arg)
          /\ scr_out.value[1] = "Error generating scramble: "
    /\ (scr_pc = "returned" /\ oracle.ok) =>
          scr_out.value = invert_solution(oracle.text)

\* C4's case: kociemba.solve failed with a message on a scrambled state
C4_Witness ==
    /\ scr_pc = "returned"
    /\ ~oracle.ok
    /\ oracle.text # <<>>
    /\ rnd # NoDraws

C10_RowHoldsStartScramble ==
    \A r \in 1..Len(history) : history[r].scramble = history[r].shown_at_start

====
